---- MODULE Spec2Model ----
(***************************************************************************)
(* LoanTrack: the loan record's derived state (total with interest,        *)
(* overdue, status), the stored collection under the operations of         *)
(* LoanService, and the analytics built on a collection of loans.          *)
(*                                                                         *)
(* A JavaScript number is modelled as an exact rational [n, d] in lowest   *)
(* terms with d >= 0; d = 0 encodes the non-finite values: [0,0] is NaN,   *)
(* [1,0] is Infinity and [-1,0] is -Infinity.  A repaymentDate string      *)
(* 'YYYY-MM-DD' is modelled as its day number; an instant is a number of   *)
(* clock ticks, TicksPerDay of them to the day, day d starting (UTC        *)
(* midnight) at tick d * TicksPerDay.                                      *)
(***************************************************************************)
EXTENDS Integers, Sequences, FiniteSets, TLC

VARIABLES loans, now, nextId, result

vars == <<loans, now, nextId, result>>

(***************************************************************************)
(* Bounds of the model.                                                    *)
(***************************************************************************)
\* clock ticks per day: tick 0 of a day is UTC midnight
TicksPerDay == 2
\* number of days the clock may run past Today
MaxDays == 2
\* largest collection handed to the analytics
MaxPortfolio == 3
\* largest collection owed to a single lender
MaxLenderLoans == 10

\* the day the clock starts on
Today == 40

Tomorrow == Today + 1
Yesterday == Today - 1
LastMonth == Today - 30

StartNow == Today * TicksPerDay
MaxNow == (Today + MaxDays) * TicksPerDay - 1

(***************************************************************************)
(* JavaScript numbers.                                                     *)
(***************************************************************************)
Abs(x) == IF x < 0 THEN -x ELSE x

Sign(x) == IF x < 0 THEN -1 ELSE IF x > 0 THEN 1 ELSE 0

RECURSIVE GCD(_, _)
GCD(a, b) == IF b = 0 THEN a ELSE GCD(b, a % b)

\* the number n / d in canonical form
Norm(n, d) ==
    IF d = 0 THEN [n |-> Sign(n), d |-> 0]
    ELSE LET g == GCD(Abs(n), Abs(d))
         IN  [n |-> (Sign(d) * n) \div g, d |-> Abs(d) \div g]

Num(i) == [n |-> i, d |-> 1]

NaN == [n |-> 0, d |-> 0]
PosInfinity == [n |-> 1, d |-> 0]
NegInfinity == [n |-> -1, d |-> 0]

IsNaN(x) == x.n = 0 /\ x.d = 0
IsFinite(x) == x.d # 0

NumAdd(a, b) ==
    IF IsNaN(a) \/ IsNaN(b) THEN NaN
    ELSE IF ~IsFinite(a) THEN (IF ~IsFinite(b) /\ b.n # a.n THEN NaN ELSE a)
    ELSE IF ~IsFinite(b) THEN b
    ELSE Norm(a.n * b.d + b.n * a.d, a.d * b.d)

NumNeg(a) == [n |-> -a.n, d |-> a.d]

NumSub(a, b) == NumAdd(a, NumNeg(b))

NumMul(a, b) == Norm(a.n * b.n, a.d * b.d)

NumDiv(a, b) ==
    IF IsNaN(a) \/ IsNaN(b) THEN NaN
    ELSE IF ~IsFinite(b) THEN (IF IsFinite(a) THEN Num(0) ELSE NaN)
    ELSE IF b.n = 0 THEN Norm(a.n, 0)
    ELSE Norm(a.n * b.d, a.d * b.n)

\* a < b; every comparison with NaN is false
NumLt(a, b) ==
    IF IsNaN(a) \/ IsNaN(b) THEN FALSE
    ELSE IF ~IsFinite(a) /\ ~IsFinite(b) THEN a.n < b.n
    ELSE a.n * b.d < b.n * a.d

NumGt(a, b) == NumLt(b, a)

NumGe(a, b) == ~IsNaN(a) /\ ~IsNaN(b) /\ ~NumLt(a, b)

MathMin2(a, b) ==
    IF IsNaN(a) \/ IsNaN(b) THEN NaN ELSE IF NumLt(b, a) THEN b ELSE a

MathMax2(a, b) ==
    IF IsNaN(a) \/ IsNaN(b) THEN NaN ELSE IF NumLt(a, b) THEN b ELSE a

\* Math.min(...xs) and Math.max(...xs): Infinity and -Infinity on no argument
RECURSIVE MathMin(_)
MathMin(xs) ==
    IF xs = <<>> THEN PosInfinity ELSE MathMin2(Head(xs), MathMin(Tail(xs)))

RECURSIVE MathMax(_)
MathMax(xs) ==
    IF xs = <<>> THEN NegInfinity ELSE MathMax2(Head(xs), MathMax(Tail(xs)))

\* Math.round: to the nearest integer, a half going up
MathRound(x) ==
    IF ~IsFinite(x) THEN x ELSE Num((2 * x.n + x.d) \div (2 * x.d))

\* xs.reduce((sum, x) => sum + x, 0)
RECURSIVE SumSeq(_)
SumSeq(xs) ==
    IF xs = <<>> THEN Num(0)
    ELSE NumAdd(SumSeq(SubSeq(xs, 1, Len(xs) - 1)), xs[Len(xs)])

(***************************************************************************)
(* The loan record.  An optional interestRate is a sequence of at most one *)
(* number: <<>> when the field is absent.                                  *)
(***************************************************************************)
NoRate == <<>>

Rate(r) == <<r>>

LenderNames == {"John", "john"}
PhoneNumbers == {"+2348012345678"}
Amounts == {25000, 50000, 75000}
InterestRates == {NoRate, Rate(0), Rate(5), Rate(10)}
RepaymentDates == {LastMonth, Yesterday, Today, Tomorrow}

Loan ==
    [id : {1}, lenderName : LenderNames, phoneNumber : PhoneNumbers,
     amount : Amounts, repaymentDate : RepaymentDates,
     interestRate : InterestRates, isPaid : BOOLEAN]

\* new Date(dateString) of a date-only string: UTC midnight of that day
DateParse(dateString) == dateString * TicksPerDay

\* the interestRate field is present and truthy
HasInterest(loan) == loan.interestRate # NoRate /\ loan.interestRate[1] # 0

\* mutant: the interest is not divided by 100
calculateTotalWithInterestNoPercent(loan) ==
    IF HasInterest(loan)
    THEN NumAdd(Num(loan.amount), Num(loan.amount * loan.interestRate[1]))
    ELSE Num(loan.amount)

calculateTotalWithInterest(loan) ==
    IF HasInterest(loan)
    THEN LET interest == NumDiv(Num(loan.amount * loan.interestRate[1]), Num(100))
         IN  NumAdd(Num(loan.amount), interest)
    ELSE Num(loan.amount)

\* mutant: the comparison of the due instant with the clock is turned around
isOverdueBeforeDue(loan, clock) == DateParse(loan.repaymentDate) > clock /\ ~loan.isPaid

\* mutant: the isPaid flag is not consulted
isOverdueIgnoringPaid(loan, clock) == DateParse(loan.repaymentDate) < clock

\* mutant: a loan is overdue from the instant it falls due
isOverdueAtDueInstant(loan, clock) ==
    DateParse(loan.repaymentDate) <= clock /\ ~loan.isPaid

isOverdue(loan, clock) == DateParse(loan.repaymentDate) < clock /\ ~loan.isPaid

\* the Status column of formatLoanTable
StatusOf(loan, clock) ==
    IF loan.isPaid THEN "Paid"
    ELSE IF isOverdue(loan, clock) THEN "Overdue" ELSE "Pending"

\* one row of formatLoanTable: the columns computed from the loan
TableRow(loan, clock) ==
    [id |-> loan.id,
     amount |-> calculateTotalWithInterest(loan),
     status |-> StatusOf(loan, clock)]

formatLoanTable(ls, clock) == [i \in 1..Len(ls) |-> TableRow(ls[i], clock)]

NoResult == [op |-> "none"]

(***************************************************************************)
(* SpecLoan: one loan record and the clock; the actions evaluate the       *)
(* record's derived attributes.                                            *)
(***************************************************************************)
InitLoan ==
    /\ loans \in {<<l>> : l \in Loan}
    /\ now \in StartNow..MaxNow
    /\ nextId = 2
    /\ result = NoResult

CalculateTotalWithInterest ==
    /\ result' = [op |-> "calculateTotalWithInterest", loan |-> loans[1],
                  value |-> calculateTotalWithInterest(loans[1])]
    /\ UNCHANGED <<loans, now, nextId>>

IsOverdue ==
    /\ result' = [op |-> "isOverdue", loan |-> loans[1], now |-> now,
                  value |-> isOverdue(loans[1], now)]
    /\ UNCHANGED <<loans, now, nextId>>

FormatLoanTable ==
    /\ result' = [op |-> "formatLoanTable", loans |-> loans, now |-> now,
                  value |-> formatLoanTable(loans, now)]
    /\ UNCHANGED <<loans, now, nextId>>

\* the system clock advances
Tick ==
    /\ now < MaxNow
    /\ now' = now + 1
    /\ result' = NoResult
    /\ UNCHANGED <<loans, nextId>>

NextLoan ==
    \/ CalculateTotalWithInterest
    \/ IsOverdue
    \/ FormatLoanTable
    \/ Tick

SpecLoan == InitLoan /\ [][NextLoan]_vars

(***************************************************************************)
(* SpecClock: one loan record, read while the system clock advances from   *)
(* the midnight that starts Today.                                         *)
(***************************************************************************)
InitClock ==
    /\ loans \in {<<l>> : l \in Loan}
    /\ now = StartNow
    /\ nextId = 2
    /\ result = NoResult

SpecClock == InitClock /\ [][NextLoan]_vars /\ WF_vars(Tick)

(***************************************************************************)
(* isValidDate of the date utilities.  A date string is a sequence of at   *)
(* most one day number: <<>> is a string that Date cannot parse.           *)
(***************************************************************************)
\* the days before and after Today a date string may name
MaxDateSpan == 15

Unparseable == <<>>

DateStrings ==
    {Unparseable} \cup {<<day>> : day \in (Today - MaxDateSpan)..(Today + MaxDateSpan)}

\* new Date(dateString).getTime(): NaN for a string that does not parse
GetTime(dateString) ==
    IF dateString = Unparseable THEN NaN ELSE Num(DateParse(dateString[1]))

\* mutant: a date is accepted from the current instant on
isValidDateFromNow(dateString, clock) ==
    ~IsNaN(GetTime(dateString)) /\ NumGe(GetTime(dateString), Num(clock))

isValidDate(dateString, clock) ==
    ~IsNaN(GetTime(dateString)) /\ NumGt(GetTime(dateString), Num(clock))

InitDate ==
    /\ loans = <<>>
    /\ now \in StartNow..MaxNow
    /\ nextId = 1
    /\ result = NoResult

IsValidDate ==
    \E dateString \in DateStrings :
        /\ result' = [op |-> "isValidDate", dateString |-> dateString, now |-> now,
                      value |-> isValidDate(dateString, now)]
        /\ UNCHANGED <<loans, now, nextId>>

NextDate ==
    \/ IsValidDate
    \/ Tick

SpecDate == InitDate /\ [][NextDate]_vars

(***************************************************************************)
(* Collections of loans: LoanService.getTotalDebt, the view filters of     *)
(* showViewLoansMenu and AnalyticsService.generateOverviewAnalytics.       *)
(***************************************************************************)
\* loans.map(loan => loan.calculateTotalWithInterest())
TotalsOf(ls) == [i \in 1..Len(ls) |-> calculateTotalWithInterest(ls[i])]

\* the interest of one loan as the reducers add it: nothing without a rate
InterestOf(loan) ==
    IF HasInterest(loan)
    THEN NumDiv(Num(loan.amount * loan.interestRate[1]), Num(100))
    ELSE Num(0)

getTotalDebt(ls) == SumSeq(TotalsOf(ls))

ViewFilters == {"all", "overdue", "upcoming", "paid"}

\* mutant: the upcoming filter keeps every loan that is not overdue
ViewKeepsUpcomingWithPaid(filter, loan, clock) ==
    IF filter = "all" THEN TRUE
    ELSE IF filter = "overdue" THEN isOverdue(loan, clock)
    ELSE IF filter = "upcoming" THEN ~isOverdue(loan, clock)
    ELSE IF filter = "paid" THEN loan.isPaid
    ELSE FALSE

\* the predicate of loans.filter in showViewLoansMenu
ViewKeeps(filter, loan, clock) ==
    IF filter = "all" THEN TRUE
    ELSE IF filter = "overdue" THEN isOverdue(loan, clock)
    ELSE IF filter = "upcoming" THEN ~isOverdue(loan, clock) /\ ~loan.isPaid
    ELSE IF filter = "paid" THEN loan.isPaid
    ELSE FALSE

ViewFilter(filter, ls, clock) ==
    LET keep(loan) == ViewKeeps(filter, loan, clock) IN SelectSeq(ls, keep)

\* number.toFixed(1), as the number of tenths printed
ToFixed1(x) == MathRound(NumMul(x, Num(10)))

\* mutant: the percentage is computed without the guard on its denominator
PercentOfUnguarded(part, whole) ==
    NumMul(NumDiv(Num(part), Num(whole)), Num(100))

\* whole > 0 ? (part / whole) * 100 : 0, on two counts
PercentOf(part, whole) ==
    IF whole > 0 THEN NumMul(NumDiv(Num(part), Num(whole)), Num(100)) ELSE Num(0)

\* mutant: the paid amount adds the principals, without the interest
generateOverviewAnalyticsPaidPrincipal(ls, clock) ==
    LET paid(loan) == loan.isPaid
        overdue(loan) == isOverdue(loan, clock)
        totalLoans == Len(ls)
        paidLoans == Len(SelectSeq(ls, paid))
        overdueLoans == Len(SelectSeq(ls, overdue))
        totalDebt == SumSeq(TotalsOf(ls))
        overdueAmount == SumSeq(TotalsOf(SelectSeq(ls, overdue)))
        paidOnes == SelectSeq(ls, paid)
        paidAmount == SumSeq([i \in 1..Len(paidOnes) |-> Num(paidOnes[i].amount)])
    IN  [totalLoans |-> totalLoans,
         activeLoans |-> totalLoans - paidLoans,
         paidLoans |-> paidLoans,
         overdueLoans |-> overdueLoans,
         pendingLoans |-> totalLoans - paidLoans - overdueLoans,
         totalDebt |-> totalDebt,
         totalInterest |-> SumSeq([i \in 1..Len(ls) |-> InterestOf(ls[i])]),
         overdueAmount |-> overdueAmount,
         paidAmount |-> paidAmount,
         pendingAmount |-> NumSub(NumSub(totalDebt, paidAmount), overdueAmount),
         averageLoanAmount |->
             IF totalLoans > 0 THEN NumDiv(totalDebt, Num(totalLoans)) ELSE Num(0),
         smallestLoan |-> IF Len(ls) > 0 THEN MathMin(TotalsOf(ls)) ELSE Num(0),
         largestLoan |-> IF Len(ls) > 0 THEN MathMax(TotalsOf(ls)) ELSE Num(0),
         paymentRate |->
             IF totalLoans > 0
             THEN NumMul(NumDiv(Num(paidLoans), Num(totalLoans)), Num(100))
             ELSE Num(0)]

generateOverviewAnalytics(ls, clock) ==
    LET paid(loan) == loan.isPaid
        overdue(loan) == isOverdue(loan, clock)
        totalLoans == Len(ls)
        paidLoans == Len(SelectSeq(ls, paid))
        overdueLoans == Len(SelectSeq(ls, overdue))
        activeLoans == totalLoans - paidLoans
        pendingLoans == activeLoans - overdueLoans
        totalDebt == SumSeq(TotalsOf(ls))
        totalInterest == SumSeq([i \in 1..Len(ls) |-> InterestOf(ls[i])])
        overdueAmount == SumSeq(TotalsOf(SelectSeq(ls, overdue)))
        paidAmount == SumSeq(TotalsOf(SelectSeq(ls, paid)))
        pendingAmount == NumSub(NumSub(totalDebt, paidAmount), overdueAmount)
        loanAmounts == TotalsOf(ls)
    IN  [totalLoans |-> totalLoans,
         activeLoans |-> activeLoans,
         paidLoans |-> paidLoans,
         overdueLoans |-> overdueLoans,
         pendingLoans |-> pendingLoans,
         totalDebt |-> totalDebt,
         totalInterest |-> totalInterest,
         overdueAmount |-> overdueAmount,
         paidAmount |-> paidAmount,
         pendingAmount |-> pendingAmount,
         averageLoanAmount |->
             IF totalLoans > 0 THEN NumDiv(totalDebt, Num(totalLoans)) ELSE Num(0),
         smallestLoan |->
             IF Len(loanAmounts) > 0 THEN MathMin(loanAmounts) ELSE Num(0),
         largestLoan |->
             IF Len(loanAmounts) > 0 THEN MathMax(loanAmounts) ELSE Num(0),
         paymentRate |-> PercentOf(paidLoans, totalLoans)]

(***************************************************************************)
(* AnalyticsService.generateMonthlyBreakdown.  Day 0 is 1 January of       *)
(* EpochYear; a month is numbered year * 12 + (month - 1); the process     *)
(* runs in UTC, where setMonth and toISOString agree on the calendar.      *)
(***************************************************************************)
EpochYear == 2025

IsLeapYear(y) == (y % 4 = 0 /\ y % 100 # 0) \/ y % 400 = 0

\* the number of days of a numbered month
DaysInMonth(monthNo) ==
    LET y == monthNo \div 12
        m == (monthNo % 12) + 1
    IN  IF m = 2 THEN (IF IsLeapYear(y) THEN 29 ELSE 28)
        ELSE IF m \in {4, 6, 9, 11} THEN 30 ELSE 31

\* the civil date of a day number: its numbered month and day of the month
RECURSIVE CivilFrom(_, _)
CivilFrom(monthNo, n) ==
    IF n < 0 THEN CivilFrom(monthNo - 1, n + DaysInMonth(monthNo - 1))
    ELSE IF n >= DaysInMonth(monthNo) THEN CivilFrom(monthNo + 1, n - DaysInMonth(monthNo))
    ELSE [monthNo |-> monthNo, day |-> n + 1]

CivilDate(dayNo) == CivilFrom(EpochYear * 12, dayNo)

\* date.setMonth(date.getMonth() - i); date.toISOString().slice(0, 7): a day
\* of the month the target month lacks overflows into the month after it
MonthKeyBack(clock, i) ==
    LET date == CivilDate(clock \div TicksPerDay)
        target == date.monthNo - i
    IN  IF date.day > DaysInMonth(target) THEN target + 1 ELSE target

\* loan.repaymentDate.slice(0, 7)
RepaymentMonth(loan) == CivilDate(loan.repaymentDate).monthNo

\* the bucket of one month key: the data gathered under it, then the average
MonthBucket(ls, clock, monthKey) ==
    LET inMonth(loan) == RepaymentMonth(loan) = monthKey
        paid(loan) == loan.isPaid
        overdue(loan) == ~loan.isPaid /\ isOverdue(loan, clock)
        dataLoans == SelectSeq(ls, inMonth)
        newLoans == Len(dataLoans)
        totalAmount == SumSeq(TotalsOf(dataLoans))
    IN  [month |-> monthKey,
         newLoans |-> newLoans,
         totalAmount |-> totalAmount,
         paidLoans |-> Len(SelectSeq(dataLoans, paid)),
         overdueLoans |-> Len(SelectSeq(dataLoans, overdue)),
         averageAmount |->
             IF newLoans > 0 THEN NumDiv(totalAmount, Num(newLoans)) ELSE Num(0)]

generateMonthlyBreakdown(ls, clock) ==
    LET months == [k \in 1..12 |-> MonthKeyBack(clock, 12 - k)]
    IN  [k \in 1..12 |-> MonthBucket(ls, clock, months[k])]

(***************************************************************************)
(* AnalyticsService.generateLenderAnalysis.                                *)
(***************************************************************************)
\* mutant: the lender names are grouped without regard to case
LenderKeyIgnoringCase(loan) ==
    IF loan.lenderName = "John" THEN "john" ELSE loan.lenderName

\* the key a loan is grouped under in lenderMap
LenderKey(loan) == loan.lenderName

\* the keys of lenderMap, in the order the loans first mention them
RECURSIVE LenderKeys(_)
LenderKeys(ls) ==
    IF ls = <<>> THEN <<>>
    ELSE LET before == LenderKeys(SubSeq(ls, 1, Len(ls) - 1))
             key == LenderKey(ls[Len(ls)])
         IN  IF \E i \in 1..Len(before) : before[i] = key
             THEN before
             ELSE Append(before, key)

\* mutant: the Medium test on the payment rate is turned around
LenderRiskLevelPaymentInverted(overdueRate, paymentRate) ==
    IF NumGt(overdueRate, Num(50)) \/ NumLt(paymentRate, Num(30)) THEN "High"
    ELSE IF NumGt(overdueRate, Num(20)) \/ NumGt(paymentRate, Num(60)) THEN "Medium"
    ELSE "Low"

\* mutant: a lender is High from an overdue rate of 50
LenderRiskLevelFromHalf(overdueRate, paymentRate) ==
    IF ~NumLt(overdueRate, Num(50)) \/ NumLt(paymentRate, Num(30)) THEN "High"
    ELSE IF NumGt(overdueRate, Num(20)) \/ NumLt(paymentRate, Num(60)) THEN "Medium"
    ELSE "Low"

LenderRiskLevel(overdueRate, paymentRate) ==
    IF NumGt(overdueRate, Num(50)) \/ NumLt(paymentRate, Num(30)) THEN "High"
    ELSE IF NumGt(overdueRate, Num(20)) \/ NumLt(paymentRate, Num(60)) THEN "Medium"
    ELSE "Low"

\* the entry of one lender: the data gathered under its key, then the rates
LenderEntry(ls, key, clock) ==
    LET mine(loan) == LenderKey(loan) = key
        paid(loan) == loan.isPaid
        overdue(loan) == ~loan.isPaid /\ isOverdue(loan, clock)
        dataLoans == SelectSeq(ls, mine)
        totalAmount == SumSeq(TotalsOf(dataLoans))
        paidLoans == Len(SelectSeq(dataLoans, paid))
        overdueLoans == Len(SelectSeq(dataLoans, overdue))
        totalLoans == Len(dataLoans)
        paymentRate == PercentOf(paidLoans, totalLoans)
        overdueRate == PercentOf(overdueLoans, totalLoans)
    IN  [name |-> key,
         totalLoans |-> totalLoans,
         totalAmount |-> totalAmount,
         paidLoans |-> paidLoans,
         overdueLoans |-> overdueLoans,
         paymentRate |-> paymentRate,
         averageAmount |->
             IF totalLoans > 0 THEN NumDiv(totalAmount, Num(totalLoans)) ELSE Num(0),
         riskLevel |-> LenderRiskLevel(overdueRate, paymentRate)]

\* analysis.sort((a, b) => b.totalAmount - a.totalAmount): a stable sort
RECURSIVE SortByTotalAmount(_)
SortByTotalAmount(entries) ==
    IF entries = <<>> THEN <<>>
    ELSE LET sorted == SortByTotalAmount(SubSeq(entries, 1, Len(entries) - 1))
             e == entries[Len(entries)]
             k == Cardinality({i \in 1..Len(sorted) :
                                  ~NumLt(sorted[i].totalAmount, e.totalAmount)})
         IN  SubSeq(sorted, 1, k) \o <<e>> \o SubSeq(sorted, k + 1, Len(sorted))

\* mutant: the entries are left in the order of the Map
generateLenderAnalysisUnsorted(ls, clock) ==
    LET keys == LenderKeys(ls)
    IN  [i \in 1..Len(keys) |-> LenderEntry(ls, keys[i], clock)]

generateLenderAnalysis(ls, clock) ==
    LET keys == LenderKeys(ls)
    IN  SortByTotalAmount([i \in 1..Len(keys) |-> LenderEntry(ls, keys[i], clock)])

(***************************************************************************)
(* AnalyticsService.generateInterestAnalysis.                              *)
(***************************************************************************)
\* mutant: a loan counts as carrying interest when it has a rate, be it 0
generateInterestAnalysisRatePresent(ls) ==
    LET withInterest(loan) ==
            loan.interestRate # NoRate
        loansWithInterest == SelectSeq(ls, withInterest)
        totalInterest == SumSeq([i \in 1..Len(ls) |-> InterestOf(ls[i])])
        totalPrincipal == SumSeq([i \in 1..Len(ls) |-> Num(ls[i].amount)])
        interestRates ==
            [i \in 1..Len(loansWithInterest) |->
                Num(loansWithInterest[i].interestRate[1])]
    IN  [totalInterest |-> totalInterest,
         interestPercentage |->
             IF NumGt(totalPrincipal, Num(0))
             THEN NumMul(NumDiv(totalInterest, totalPrincipal), Num(100))
             ELSE Num(0),
         averageRate |->
             IF Len(interestRates) > 0
             THEN NumDiv(SumSeq(interestRates), Num(Len(interestRates)))
             ELSE Num(0),
         highestRate |->
             IF Len(interestRates) > 0 THEN MathMax(interestRates) ELSE Num(0),
         lowestRate |->
             IF Len(interestRates) > 0 THEN MathMin(interestRates) ELSE Num(0),
         loansWithInterest |-> Len(loansWithInterest),
         interestLoanPercentage |-> PercentOf(Len(loansWithInterest), Len(ls)),
         potentialRevenue |-> SumSeq(TotalsOf(ls))]

generateInterestAnalysis(ls) ==
    LET withInterest(loan) ==
            loan.interestRate # NoRate /\ loan.interestRate[1] # 0
                /\ loan.interestRate[1] > 0
        loansWithInterest == SelectSeq(ls, withInterest)
        totalInterest == SumSeq([i \in 1..Len(ls) |-> InterestOf(ls[i])])
        totalPrincipal == SumSeq([i \in 1..Len(ls) |-> Num(ls[i].amount)])
        interestRates ==
            [i \in 1..Len(loansWithInterest) |->
                Num(loansWithInterest[i].interestRate[1])]
    IN  [totalInterest |-> totalInterest,
         interestPercentage |->
             IF NumGt(totalPrincipal, Num(0))
             THEN NumMul(NumDiv(totalInterest, totalPrincipal), Num(100))
             ELSE Num(0),
         averageRate |->
             IF Len(interestRates) > 0
             THEN NumDiv(SumSeq(interestRates), Num(Len(interestRates)))
             ELSE Num(0),
         highestRate |->
             IF Len(interestRates) > 0 THEN MathMax(interestRates) ELSE Num(0),
         lowestRate |->
             IF Len(interestRates) > 0 THEN MathMin(interestRates) ELSE Num(0),
         loansWithInterest |-> Len(loansWithInterest),
         interestLoanPercentage |-> PercentOf(Len(loansWithInterest), Len(ls)),
         potentialRevenue |-> SumSeq(TotalsOf(ls))]

(***************************************************************************)
(* AnalyticsService.generatePaymentTrends.                                 *)
(***************************************************************************)
Periods ==
    <<"Last 7 days", "Last 30 days", "Last 90 days", "Last 6 months", "Last year">>

DayRanges == <<7, 30, 90, 180, 365>>

NumAbs(x) == [n |-> Abs(x.n), d |-> x.d]

\* mutant: the comparison with the cutoff is turned around
PeriodLoansBeforeCutoff(ls, clock, days) ==
    LET cutoffDate == clock - days * TicksPerDay
        inPeriod(loan) == DateParse(loan.repaymentDate) <= cutoffDate /\ loan.isPaid
    IN  SelectSeq(ls, inPeriod)

\* the paid loans due on or after the cutoff, days before the clock
PeriodLoans(ls, clock, days) ==
    LET cutoffDate == clock - days * TicksPerDay
        inPeriod(loan) == DateParse(loan.repaymentDate) >= cutoffDate /\ loan.isPaid
    IN  SelectSeq(ls, inPeriod)

\* mutant: the change is computed without the guard on the previous amount
PaymentTrendUnguarded(ls, clock, i) ==
    LET periodLoans == PeriodLoans(ls, clock, DayRanges[i])
        amount == SumSeq(TotalsOf(periodLoans))
        prevAmount ==
            IF i > 1
            THEN SumSeq(TotalsOf(PeriodLoans(ls, clock, DayRanges[i - 1])))
            ELSE Num(0)
        changePercentage ==
            IF i > 1
            THEN NumMul(NumDiv(NumSub(amount, prevAmount), prevAmount), Num(100))
            ELSE Num(0)
    IN  [period |-> Periods[i],
         payments |-> Len(periodLoans),
         amount |-> amount,
         trend |-> IF NumGt(changePercentage, Num(5)) THEN "up"
                   ELSE IF NumLt(changePercentage, Num(-5)) THEN "down"
                   ELSE "stable",
         changePercentage |-> NumAbs(changePercentage)]

PaymentTrend(ls, clock, i) ==
    LET periodLoans == PeriodLoans(ls, clock, DayRanges[i])
        amount == SumSeq(TotalsOf(periodLoans))
        prevAmount ==
            IF i > 1
            THEN SumSeq(TotalsOf(PeriodLoans(ls, clock, DayRanges[i - 1])))
            ELSE Num(0)
        changePercentage ==
            IF i > 1 /\ NumGt(prevAmount, Num(0))
            THEN NumMul(NumDiv(NumSub(amount, prevAmount), prevAmount), Num(100))
            ELSE Num(0)
    IN  [period |-> Periods[i],
         payments |-> Len(periodLoans),
         amount |-> amount,
         trend |-> IF NumGt(changePercentage, Num(5)) THEN "up"
                   ELSE IF NumLt(changePercentage, Num(-5)) THEN "down"
                   ELSE "stable",
         changePercentage |-> NumAbs(changePercentage)]

generatePaymentTrends(ls, clock) ==
    [i \in 1..Len(Periods) |-> PaymentTrend(ls, clock, i)]

(***************************************************************************)
(* AnalyticsService.generateRiskAssessment.                                *)
(***************************************************************************)
\* mutant: the five factors weigh the same
WeightsUniform == <<Norm(1, 5), Norm(1, 5), Norm(1, 5), Norm(1, 5), Norm(1, 5)>>

\* the weights of the five factors: 0.3, 0.25, 0.15, 0.2, 0.1
Weights == <<Norm(3, 10), Norm(25, 100), Norm(15, 100), Norm(2, 10), Norm(1, 10)>>

\* factor 1: the share of overdue loans, doubled and capped
OverdueFactor(ls, clock) ==
    LET overdue(loan) == isOverdue(loan, clock)
        overdueLoans == Len(SelectSeq(ls, overdue))
        overdueRate == PercentOf(overdueLoans, Len(ls))
    IN  [name |-> "Overdue Rate",
         score |-> MathMin2(NumMul(overdueRate, Num(2)), Num(100)),
         impact |-> IF NumGt(overdueRate, Num(30)) THEN "High"
                    ELSE IF NumGt(overdueRate, Num(15)) THEN "Medium" ELSE "Low"]

\* the values of the exposure Map: the total owed to each lender
LenderExposures(ls) ==
    LET keys == LenderKeys(ls)
    IN  [i \in 1..Len(keys) |->
            LET mine(loan) == LenderKey(loan) = keys[i]
            IN  SumSeq(TotalsOf(SelectSeq(ls, mine)))]

ConcentrationRate(ls) ==
    LET totalDebt == SumSeq(TotalsOf(ls))
        maxLenderExposure == MathMax(LenderExposures(ls))
    IN  IF NumGt(totalDebt, Num(0))
        THEN NumMul(NumDiv(maxLenderExposure, totalDebt), Num(100))
        ELSE Num(0)

\* mutant: a share of exactly one half already counts as high
ConcentrationFactorFromHalf(ls) ==
    LET concentrationRate == ConcentrationRate(ls)
    IN  [name |-> "Concentration Risk",
         score |-> IF NumGe(concentrationRate, Num(50)) THEN Num(80)
                   ELSE IF NumGt(concentrationRate, Num(30)) THEN Num(50)
                   ELSE Num(20),
         impact |-> IF NumGe(concentrationRate, Num(50)) THEN "High"
                    ELSE IF NumGt(concentrationRate, Num(30)) THEN "Medium"
                    ELSE "Low"]

\* factor 2: the share of the debt owed to the largest lender
ConcentrationFactor(ls) ==
    LET concentrationRate == ConcentrationRate(ls)
    IN  [name |-> "Concentration Risk",
         score |-> IF NumGt(concentrationRate, Num(50)) THEN Num(80)
                   ELSE IF NumGt(concentrationRate, Num(30)) THEN Num(50)
                   ELSE Num(20),
         impact |-> IF NumGt(concentrationRate, Num(50)) THEN "High"
                    ELSE IF NumGt(concentrationRate, Num(30)) THEN "Medium"
                    ELSE "Low"]

\* factor 3: the share of loans that carry no interest
InterestFactor(ls) ==
    LET withInterest(loan) ==
            loan.interestRate # NoRate /\ loan.interestRate[1] # 0
                /\ loan.interestRate[1] > 0
        loansWithInterest == SelectSeq(ls, withInterest)
        noInterestRate == PercentOf(Len(ls) - Len(loansWithInterest), Len(ls))
    IN  [name |-> "Interest Rate Risk",
         score |-> IF NumGt(noInterestRate, Num(70)) THEN Num(60)
                   ELSE IF NumGt(noInterestRate, Num(40)) THEN Num(30)
                   ELSE Num(10),
         impact |-> IF NumGt(noInterestRate, Num(70)) THEN "Medium"
                    ELSE IF NumGt(noInterestRate, Num(40)) THEN "Low"
                    ELSE "Very Low"]

\* factor 4: the share of paid loans
VelocityFactor(ls) ==
    LET paid(loan) == loan.isPaid
        paymentRate == PercentOf(Len(SelectSeq(ls, paid)), Len(ls))
    IN  [name |-> "Payment Velocity",
         score |-> IF NumLt(paymentRate, Num(50)) THEN Num(70)
                   ELSE IF NumLt(paymentRate, Num(70)) THEN Num(40)
                   ELSE Num(20),
         impact |-> IF NumLt(paymentRate, Num(50)) THEN "High"
                    ELSE IF NumLt(paymentRate, Num(70)) THEN "Medium"
                    ELSE "Low"]

\* mutant: a portfolio without loans is scored as a large one
SizeFactorEmptyAsLarge(ls) ==
    LET portfolioSize == Len(ls)
    IN  [name |-> "Portfolio Size",
         score |-> IF portfolioSize = 0 THEN Num(10)
                   ELSE IF portfolioSize < 5 THEN Num(40)
                   ELSE IF portfolioSize < 10 THEN Num(20) ELSE Num(10),
         impact |-> IF portfolioSize < 5 THEN "Medium"
                    ELSE IF portfolioSize < 10 THEN "Low" ELSE "Very Low"]

\* factor 5: the number of loans
SizeFactor(ls) ==
    LET portfolioSize == Len(ls)
    IN  [name |-> "Portfolio Size",
         score |-> IF portfolioSize < 5 THEN Num(40)
                   ELSE IF portfolioSize < 10 THEN Num(20) ELSE Num(10),
         impact |-> IF portfolioSize < 5 THEN "Medium"
                    ELSE IF portfolioSize < 10 THEN "Low" ELSE "Very Low"]

HighRiskSummary ==
    "High risk portfolio requiring immediate attention. Focus on overdue collections and risk mitigation strategies."

ModerateRiskSummary ==
    "Moderate risk portfolio. Monitor key metrics closely and implement preventive measures."

LowRiskSummary ==
    "Low risk portfolio with good fundamentals. Maintain current practices and continue monitoring."

generateRiskAssessment(ls, clock) ==
    LET factors ==
            <<OverdueFactor(ls, clock), ConcentrationFactor(ls), InterestFactor(ls),
              VelocityFactor(ls), SizeFactor(ls)>>
        totalRiskScore ==
            SumSeq([i \in 1..Len(factors) |-> NumMul(factors[i].score, Weights[i])])
    IN  [overallRisk |-> MathRound(totalRiskScore),
         factors |-> factors,
         summary |-> IF NumGe(totalRiskScore, Num(70)) THEN HighRiskSummary
                     ELSE IF NumGe(totalRiskScore, Num(40)) THEN ModerateRiskSummary
                     ELSE LowRiskSummary]

(***************************************************************************)
(* AnalyticsService.calculatePortfolioMetrics.                             *)
(***************************************************************************)
calculatePortfolioMetrics(ls, clock) ==
    LET paid(loan) == loan.isPaid
        overdue(loan) == isOverdue(loan, clock)
        totalValue == SumSeq(TotalsOf(ls))
        totalPrincipal == SumSeq([i \in 1..Len(ls) |-> Num(ls[i].amount)])
        rateOrZero(loan) ==
            IF HasInterest(loan) THEN Num(loan.interestRate[1]) ELSE Num(0)
        weightedRate ==
            IF NumGt(totalPrincipal, Num(0))
            THEN SumSeq([i \in 1..Len(ls) |->
                     NumMul(NumDiv(Num(ls[i].amount), totalPrincipal),
                            rateOrZero(ls[i]))])
            ELSE Num(0)
        totalInterest == NumSub(totalValue, totalPrincipal)
    IN  [totalValue |-> totalValue,
         weightedAverageRate |-> weightedRate,
         portfolioYield |->
             IF NumGt(totalPrincipal, Num(0))
             THEN NumMul(NumDiv(totalInterest, totalPrincipal), Num(100))
             ELSE Num(0),
         defaultRate |-> PercentOf(Len(SelectSeq(ls, overdue)), Len(ls)),
         recoveryRate |-> PercentOf(Len(SelectSeq(ls, paid)), Len(ls))]

(***************************************************************************)
(* Portfolios: the collections the reports are run on.  A loan's terms are *)
(* its amount and rate, its standing its isPaid flag and repaymentDate.    *)
(***************************************************************************)
Terms == {<<50000, Rate(10)>>, <<25000, Rate(5)>>, <<75000, NoRate>>}

Standings ==
    {<<FALSE, Yesterday>>, <<FALSE, Today>>, <<FALSE, Tomorrow>>, <<TRUE, LastMonth>>}

MakeLoan(name, terms, standing) ==
    [lenderName |-> name, phoneNumber |-> "+2348012345678",
     amount |-> terms[1], interestRate |-> terms[2],
     isPaid |-> standing[1], repaymentDate |-> standing[2]]

\* the sequences of at most MaxPortfolio loans of a domain, ids in order
PortfoliosOf(domain) ==
    {[i \in 1..Len(p) |-> [id |-> i] @@ p[i]] :
        p \in UNION {[1..n -> domain] : n \in 0..MaxPortfolio}}

\* the reports are read in the course of a day, after UTC midnight
ReportNow == Today * TicksPerDay + 1

(***************************************************************************)
(* SpecOverview: a stored collection, on which the loans view and the      *)
(* overview report are run.                                                *)
(***************************************************************************)
OverviewLoans == {MakeLoan("John", t, s) : t \in Terms, s \in Standings}

InitOverview ==
    /\ loans \in PortfoliosOf(OverviewLoans)
    /\ now = ReportNow
    /\ nextId = Len(loans) + 1
    /\ result = NoResult

ShowViewLoansMenu ==
    \E filter \in ViewFilters :
        /\ result' = [op |-> "showViewLoansMenu", filter |-> filter,
                      table |-> formatLoanTable(loans, now),
                      totalDebt |-> getTotalDebt(loans),
                      value |-> ViewFilter(filter, loans, now)]
        /\ UNCHANGED <<loans, now, nextId>>

GenerateOverviewAnalytics ==
    /\ result' = [op |-> "generateOverviewAnalytics",
                  value |-> generateOverviewAnalytics(loans, now)]
    /\ UNCHANGED <<loans, now, nextId>>

NextOverview ==
    \/ ShowViewLoansMenu
    \/ GenerateOverviewAnalytics

SpecOverview == InitOverview /\ [][NextOverview]_vars

(***************************************************************************)
(* SpecLender: a collection owed to lenders whose names differ in case     *)
(* only, or a larger one owed to a single lender, on which the lender      *)
(* analysis and the risk assessment are run.                               *)
(***************************************************************************)
LenderTerms == {<<50000, Rate(10)>>, <<75000, NoRate>>}

LenderStandings == {<<FALSE, Yesterday>>, <<FALSE, Tomorrow>>, <<TRUE, LastMonth>>}

LenderLoans ==
    {MakeLoan(nm, t, s) : nm \in LenderNames, t \in LenderTerms, s \in LenderStandings}

\* the loans of one lender: so many paid, then overdue, then pending
LenderRun(paid, overdue, pending) ==
    [i \in 1..(paid + overdue + pending) |->
        [id |-> i] @@
        MakeLoan("John", <<50000, Rate(10)>>,
                 IF i <= paid THEN <<TRUE, LastMonth>>
                 ELSE IF i <= paid + overdue THEN <<FALSE, Yesterday>>
                 ELSE <<FALSE, Tomorrow>>)]

\* the larger collections, of up to MaxLenderLoans loans of one lender
SingleLenderPortfolios ==
    {LenderRun(c[1], c[2], c[3]) :
        c \in {d \in (0..MaxLenderLoans) \X (0..MaxLenderLoans) \X (0..MaxLenderLoans) :
                  /\ d[1] + d[2] + d[3] > MaxPortfolio
                  /\ d[1] + d[2] + d[3] <= MaxLenderLoans}}

InitLender ==
    /\ loans \in PortfoliosOf(LenderLoans) \cup SingleLenderPortfolios
    /\ now = ReportNow
    /\ nextId = Len(loans) + 1
    /\ result = NoResult

GenerateLenderAnalysis ==
    /\ result' = [op |-> "generateLenderAnalysis",
                  value |-> generateLenderAnalysis(loans, now)]
    /\ UNCHANGED <<loans, now, nextId>>

GenerateRiskAssessment ==
    /\ result' = [op |-> "generateRiskAssessment",
                  value |-> generateRiskAssessment(loans, now)]
    /\ UNCHANGED <<loans, now, nextId>>

NextLender ==
    \/ GenerateLenderAnalysis
    \/ GenerateRiskAssessment

SpecLender == InitLender /\ [][NextLender]_vars

(***************************************************************************)
(* SpecAnalytics: every report of the analytics service, run on the        *)
(* collections made of the three loans of the end-to-end scenario.         *)
(***************************************************************************)
AnalyticsLoans ==
    {MakeLoan("John", <<50000, Rate(10)>>, <<FALSE, Yesterday>>),
     MakeLoan("john", <<25000, Rate(5)>>, <<FALSE, Tomorrow>>),
     MakeLoan("John", <<75000, NoRate>>, <<TRUE, LastMonth>>)}

InitAnalytics ==
    /\ loans \in PortfoliosOf(AnalyticsLoans)
    /\ now = ReportNow
    /\ nextId = Len(loans) + 1
    /\ result = NoResult

GenerateMonthlyBreakdown ==
    /\ result' = [op |-> "generateMonthlyBreakdown",
                  value |-> generateMonthlyBreakdown(loans, now)]
    /\ UNCHANGED <<loans, now, nextId>>

GenerateInterestAnalysis ==
    /\ result' = [op |-> "generateInterestAnalysis",
                  value |-> generateInterestAnalysis(loans)]
    /\ UNCHANGED <<loans, now, nextId>>

GeneratePaymentTrends ==
    /\ result' = [op |-> "generatePaymentTrends",
                  value |-> generatePaymentTrends(loans, now)]
    /\ UNCHANGED <<loans, now, nextId>>

CalculatePortfolioMetrics ==
    /\ result' = [op |-> "calculatePortfolioMetrics",
                  value |-> calculatePortfolioMetrics(loans, now)]
    /\ UNCHANGED <<loans, now, nextId>>

NextAnalytics ==
    \/ GenerateOverviewAnalytics
    \/ GenerateMonthlyBreakdown
    \/ GenerateLenderAnalysis
    \/ GenerateInterestAnalysis
    \/ GeneratePaymentTrends
    \/ GenerateRiskAssessment
    \/ CalculatePortfolioMetrics

SpecAnalytics == InitAnalytics /\ [][NextAnalytics]_vars

(***************************************************************************)
(* SpecMonthly: the monthly breakdown, run on every day of a stretch that  *)
(* holds the last days of a month, on loans due in and around the window.  *)
(***************************************************************************)
\* the number of days after Today on which the breakdown is run
MaxEvalDays == 50

\* due this month, next month, over a year ago and over half a year ahead
MonthlyStandings ==
    {<<FALSE, Today>>, <<TRUE, Today>>, <<FALSE, Today + 30>>,
     <<TRUE, Today - 400>>, <<FALSE, Today + 200>>}

MonthlyLoans == {MakeLoan("John", <<50000, Rate(10)>>, st) : st \in MonthlyStandings}

InitMonthly ==
    /\ loans \in PortfoliosOf(MonthlyLoans)
    /\ now \in {day * TicksPerDay + 1 : day \in Today..(Today + MaxEvalDays)}
    /\ nextId = Len(loans) + 1
    /\ result = NoResult

NextMonthly == GenerateMonthlyBreakdown

SpecMonthly == InitMonthly /\ [][NextMonthly]_vars

(***************************************************************************)
(* SpecRisk: the risk assessment, run on collections of up to MaxRiskLoans *)
(* loans spread over one to four lenders, so many of them paid, overdue    *)
(* and without interest.                                                   *)
(***************************************************************************)
\* largest collection handed to the risk assessment
MaxRiskLoans == 10

RiskLenders == <<"John", "john", "Mary", "Ada">>

\* n loans dealt in turn to the first lenderCount lenders: the first paid
\* ones are paid, the next overdue ones overdue, the last noRate ones carry
\* no interest
RiskPortfolio(n, lenderCount, paid, overdue, noRate) ==
    [i \in 1..n |->
        [id |-> i] @@
        MakeLoan(RiskLenders[((i - 1) % lenderCount) + 1],
                 <<50000, IF i > n - noRate THEN NoRate ELSE Rate(10)>>,
                 IF i <= paid THEN <<TRUE, LastMonth>>
                 ELSE IF i <= paid + overdue THEN <<FALSE, Yesterday>>
                 ELSE <<FALSE, Tomorrow>>)]

RiskPortfolios ==
    {RiskPortfolio(c[1], c[2], c[3], c[4], c[5]) :
        c \in {d \in (0..MaxRiskLoans) \X (1..Len(RiskLenders)) \X (0..MaxRiskLoans)
                        \X (0..MaxRiskLoans) \X (0..MaxRiskLoans) :
                  /\ d[3] + d[4] <= d[1]
                  /\ d[5] <= d[1]}}

InitRisk ==
    /\ loans \in RiskPortfolios
    /\ now = ReportNow
    /\ nextId = Len(loans) + 1
    /\ result = NoResult

NextRisk == GenerateRiskAssessment

SpecRisk == InitRisk /\ [][NextRisk]_vars

(***************************************************************************)
(* SpecLenderPair: the lender analysis, run on the loans of two lenders,   *)
(* each with up to MaxPairLoans loans, so many paid and overdue.           *)
(***************************************************************************)
\* largest number of loans of each of the two lenders
MaxPairLoans == 5

\* the loans of a named lender: so many paid, then overdue, then pending
NamedRun(name, paid, overdue, pending) ==
    [i \in 1..(paid + overdue + pending) |->
        MakeLoan(name, <<50000, Rate(10)>>,
                 IF i <= paid THEN <<TRUE, LastMonth>>
                 ELSE IF i <= paid + overdue THEN <<FALSE, Yesterday>>
                 ELSE <<FALSE, Tomorrow>>)]

\* the splits of one lender's loans into paid, overdue and pending
PairSplits ==
    {d \in (0..MaxPairLoans) \X (0..MaxPairLoans) \X (0..MaxPairLoans) :
        d[1] + d[2] + d[3] \in 1..MaxPairLoans}

PairPortfolios ==
    {LET both == NamedRun("John", a[1], a[2], a[3]) \o NamedRun("john", b[1], b[2], b[3])
     IN  [i \in 1..Len(both) |-> [id |-> i] @@ both[i]] :
        a \in PairSplits, b \in PairSplits}

InitLenderPair ==
    /\ loans \in PairPortfolios
    /\ now = ReportNow
    /\ nextId = Len(loans) + 1
    /\ result = NoResult

NextLenderPair == GenerateLenderAnalysis

SpecLenderPair == InitLenderPair /\ [][NextLenderPair]_vars

(***************************************************************************)
(* SpecTrends: the payment trends, run at midnight and later in the day on *)
(* paid loans due from over a year ago to tomorrow, and an unpaid one.     *)
(***************************************************************************)
\* the days before Today on which the paid loans fell due; -1 is tomorrow
TrendOffsets == {-1, 0, 5, 7, 20, 60, 100, 200, 400}

TrendLoans ==
    {MakeLoan("John", <<50000, Rate(10)>>, <<TRUE, Today - k>>) : k \in TrendOffsets}
        \cup {MakeLoan("John", <<75000, NoRate>>, <<FALSE, Today - 5>>)}

InitTrends ==
    /\ loans \in PortfoliosOf(TrendLoans)
    /\ now \in {Today * TicksPerDay, Today * TicksPerDay + 1}
    /\ nextId = Len(loans) + 1
    /\ result = NoResult

NextTrends == GeneratePaymentTrends

SpecTrends == InitTrends /\ [][NextTrends]_vars

(***************************************************************************)
(* SpecInterest: the interest analysis, run on loans with no rate, a rate  *)
(* of 0 and positive rates.                                                *)
(***************************************************************************)
InterestTerms == {<<amount, rate>> : amount \in {25000, 50000}, rate \in InterestRates}

InterestLoans == {MakeLoan("John", t, <<FALSE, Tomorrow>>) : t \in InterestTerms}

InitInterest ==
    /\ loans \in PortfoliosOf(InterestLoans)
    /\ now = ReportNow
    /\ nextId = Len(loans) + 1
    /\ result = NoResult

NextInterest == GenerateInterestAnalysis

SpecInterest == InitInterest /\ [][NextInterest]_vars

(***************************************************************************)
(* Spec: the stored collection under LoanService.addLoan, updateLoan,      *)
(* markLoanAsPaid and deleteLoan.  loans is the content of the data file,  *)
(* read at the start of every operation and saved at its end.  An id is a  *)
(* number; uuidv4() returns nextId, a value it never returned before.      *)
(***************************************************************************)
\* the number of ids uuidv4 issues
MaxLoans == 3

\* the loanData of addLoan, as the add form builds it
NewLoanData == {MakeLoan("John", <<50000, Rate(10)>>, <<FALSE, Tomorrow>>)}

\* the ids a caller can name: those issued so far and one never issued
CallerIds == 1..(MaxLoans + 1)

\* the updates of the edit form: the five editable fields, an absent rate
\* when the loan is said to have no interest
EditFormUpdates ==
    {[lenderName |-> "John", phoneNumber |-> "+2348012345678", amount |-> 75000,
      repaymentDate |-> Tomorrow, interestRate |-> NoRate]}

\* updates: Partial<Loan>, any of the loan's fields with a value; the id
\* given is that of the first loan ever stored
Updates == EditFormUpdates \cup {[isPaid |-> TRUE], [id |-> 1]}

\* loans.findIndex(loan => loan.id === id)
FindIndex(ls, id) ==
    IF \E i \in 1..Len(ls) : ls[i].id = id
    THEN CHOOSE i \in 1..Len(ls) :
             ls[i].id = id /\ \A j \in 1..(i - 1) : ls[j].id # id
    ELSE -1

\* mutant: the id is taken from the size of the collection
addLoanIdFromLength(ls, loanData, id) ==
    Append(ls, [id |-> Len(ls) + 1, isPaid |-> FALSE] @@ loanData)

\* { ...loanData, id: uuidv4(), isPaid: false } pushed onto the stored loans
addLoan(ls, loanData, id) ==
    Append(ls, [id |-> id, isPaid |-> FALSE] @@ loanData)

\* mutant: the update is spread over every stored loan
updateLoanOnEveryLoan(ls, id, updates) ==
    IF FindIndex(ls, id) = -1 THEN ls
    ELSE [i \in 1..Len(ls) |-> updates @@ ls[i]]

\* the stored loans after updateLoan: { ...loans[loanIndex], ...updates }
updateLoan(ls, id, updates) ==
    LET loanIndex == FindIndex(ls, id)
    IN  IF loanIndex = -1 THEN ls
        ELSE [ls EXCEPT ![loanIndex] = updates @@ ls[loanIndex]]

\* what updateLoan returns: the updated loan, or nothing for null
updateLoanResult(ls, id, updates) ==
    LET loanIndex == FindIndex(ls, id)
    IN  IF loanIndex = -1 THEN <<>> ELSE <<updates @@ ls[loanIndex]>>

\* mutant: the flag is flipped
markLoanAsPaidToggling(ls, id) ==
    LET loanIndex == FindIndex(ls, id)
    IN  IF loanIndex = -1 THEN ls
        ELSE updateLoan(ls, id, [isPaid |-> ~ls[loanIndex].isPaid])

markLoanAsPaid(ls, id) == updateLoan(ls, id, [isPaid |-> TRUE])

\* mutant: the id is taken for the position of the loan
deleteLoanAtPosition(ls, id) ==
    [i \in 1..(Len(ls) - (IF id \in 1..Len(ls) THEN 1 ELSE 0)) |->
        IF i < id THEN ls[i] ELSE ls[i + 1]]

\* loans.filter(loan => loan.id !== id)
deleteLoan(ls, id) ==
    LET others(loan) == loan.id # id IN SelectSeq(ls, others)

Init ==
    /\ loans = <<>>
    /\ now = ReportNow
    /\ nextId = 1
    /\ result = NoResult

AddLoan ==
    \E loanData \in NewLoanData :
        /\ nextId <= MaxLoans
        /\ loans' = addLoan(loans, loanData, nextId)
        /\ nextId' = nextId + 1
        /\ result' = [op |-> "addLoan", id |-> nextId,
                      value |-> <<[id |-> nextId, isPaid |-> FALSE] @@ loanData>>]
        /\ UNCHANGED now

UpdateLoan ==
    \E id \in CallerIds, updates \in Updates :
        /\ loans' = updateLoan(loans, id, updates)
        /\ result' = [op |-> "updateLoan", id |-> id, updates |-> updates,
                      value |-> updateLoanResult(loans, id, updates)]
        /\ UNCHANGED <<now, nextId>>

MarkLoanAsPaid ==
    \E id \in CallerIds :
        /\ loans' = markLoanAsPaid(loans, id)
        /\ result' = [op |-> "markLoanAsPaid", id |-> id,
                      value |-> LET after == markLoanAsPaid(loans, id)
                                    loanIndex == FindIndex(loans, id)
                                IN  IF loanIndex = -1 THEN <<>>
                                    ELSE <<after[loanIndex]>>]
        /\ UNCHANGED <<now, nextId>>

DeleteLoan ==
    \E id \in CallerIds :
        LET updatedLoans == deleteLoan(loans, id)
        IN  /\ loans' = IF Len(updatedLoans) = Len(loans) THEN loans ELSE updatedLoans
            /\ result' = [op |-> "deleteLoan", id |-> id,
                          value |-> Len(updatedLoans) # Len(loans)]
            /\ UNCHANGED <<now, nextId>>

Next ==
    \/ AddLoan
    \/ UpdateLoan
    \/ MarkLoanAsPaid
    \/ DeleteLoan

Spec == Init /\ [][Next]_vars

(***************************************************************************)
(* The loan record's properties, checked under SpecLoan.                   *)
(***************************************************************************)
\* the loan's rate as a percentage, 0 when the field is absent
RateOrZero(loan) ==
    IF loan.interestRate = NoRate THEN 0 ELSE loan.interestRate[1]

\* C1: calculateTotalWithInterest returns amount + amount * rate / 100 with
\* rate the loan's interestRate or 0 when absent: amount itself when the rate
\* is absent or 0, amount * (1 + r/100) when the rate is r > 0 (50000 at 10
\* gives 55000).
TotalWithInterestIsSimpleInterest ==
    result.op = "calculateTotalWithInterest" =>
        LET l == result.loan
            r == RateOrZero(l)
        IN  /\ NumMul(result.value, Num(100)) = Num(100 * l.amount + l.amount * r)
            /\ (r = 0 => result.value = Num(l.amount))
            /\ (r > 0 => result.value = Norm(l.amount * (100 + r), 100))
            /\ (l.amount = 50000 /\ r = 10 => result.value = Num(55000))

TotalWithInterestWitness ==
    /\ result.op = "calculateTotalWithInterest"
    /\ result.loan.amount = 50000
    /\ result.loan.interestRate = Rate(10)
    /\ result.value = Num(55000)

\* C2: a loan with isPaid = TRUE is never overdue, whatever its repaymentDate
\* and the evaluation time, and its table row never shows Overdue.
PaidLoanNeverOverdue ==
    /\ (result.op = "isOverdue" /\ result.loan.isPaid) => result.value = FALSE
    /\ result.op = "formatLoanTable" =>
           \A i \in 1..Len(loans) :
               loans[i].isPaid => result.value[i].status # "Overdue"

PaidLoanPastDueWitness ==
    /\ result.op = "isOverdue"
    /\ result.loan.isPaid
    /\ result.loan.repaymentDate < now \div TicksPerDay
    /\ result.value = FALSE

DueTodayIsNotOverdue ==
    /\ (/\ result.op = "isOverdue"
        /\ ~result.loan.isPaid
        /\ result.loan.repaymentDate = result.now \div TicksPerDay)
       => result.value = FALSE
    /\ result.op = "formatLoanTable" =>
           \A i \in 1..Len(loans) :
               (~loans[i].isPaid /\ loans[i].repaymentDate = now \div TicksPerDay)
                   => result.value[i].status = "Pending"

(***************************************************************************)
(* The derived statuses of a collection, checked under SpecOverview.       *)
(***************************************************************************)
\* the three derived statuses as the data model defines them
IsPaidStatus(loan) == loan.isPaid

IsOverdueStatus(loan, clock) ==
    ~loan.isPaid /\ loan.repaymentDate * TicksPerDay < clock

IsPendingStatus(loan, clock) ==
    ~loan.isPaid /\ ~(loan.repaymentDate * TicksPerDay < clock)

PaidIds(ls) == {i \in 1..Len(ls) : IsPaidStatus(ls[i])}

OverdueIds(ls, clock) == {i \in 1..Len(ls) : IsOverdueStatus(ls[i], clock)}

PendingIds(ls, clock) == {i \in 1..Len(ls) : IsPendingStatus(ls[i], clock)}

IdsOf(ls) == {ls[i].id : i \in 1..Len(ls)}

\* amount * (1 + rate / 100), the rate 0 when absent
SimpleInterestTotal(loan) == Norm(loan.amount * (100 + RateOrZero(loan)), 100)

RECURSIVE SumOfTotals(_, _)
SumOfTotals(ls, ids) ==
    IF ids = {} THEN Num(0)
    ELSE LET i == CHOOSE j \in ids : TRUE
         IN  NumAdd(SimpleInterestTotal(ls[i]), SumOfTotals(ls, ids \ {i}))

\* C5: every loan has exactly one status among Paid, Overdue and Pending; the
\* overview's paidLoans + overdueLoans + pendingLoans is totalLoans, each count
\* non-negative and that of its status; the paid, overdue and upcoming view
\* filters select pairwise disjoint sets whose union is all loans.
StatusesPartitionTheLoans ==
    /\ result.op = "generateOverviewAnalytics" =>
           LET o == result.value
           IN  /\ o.totalLoans = Len(loans)
               /\ o.paidLoans = Cardinality(PaidIds(loans))
               /\ o.overdueLoans = Cardinality(OverdueIds(loans, now))
               /\ o.pendingLoans = Cardinality(PendingIds(loans, now))
               /\ o.paidLoans + o.overdueLoans + o.pendingLoans = o.totalLoans
               /\ o.paidLoans >= 0 /\ o.overdueLoans >= 0 /\ o.pendingLoans >= 0
    /\ result.op = "showViewLoansMenu" =>
           LET paid == IdsOf(ViewFilter("paid", loans, now))
               overdue == IdsOf(ViewFilter("overdue", loans, now))
               upcoming == IdsOf(ViewFilter("upcoming", loans, now))
           IN  /\ paid \cap overdue = {}
               /\ paid \cap upcoming = {}
               /\ overdue \cap upcoming = {}
               /\ paid \cup overdue \cup upcoming = IdsOf(loans)
               /\ result.filter = "paid" => IdsOf(result.value) = PaidIds(loans)
               /\ result.filter = "overdue" =>
                      IdsOf(result.value) = OverdueIds(loans, now)
               /\ result.filter = "upcoming" =>
                      IdsOf(result.value) = PendingIds(loans, now)
               /\ \A i \in 1..Len(loans) :
                      Cardinality({st \in {"Paid", "Overdue", "Pending"} :
                                      result.table[i].status = st}) = 1

StatusesPartitionWitness ==
    /\ result.op = "showViewLoansMenu"
    /\ result.filter = "upcoming"
    /\ Len(result.value) = 1
    /\ PaidIds(loans) # {}
    /\ OverdueIds(loans, now) # {}

\* the three loans of the end-to-end scenario
IsScenario(ls) ==
    /\ Len(ls) = 3
    /\ ls[1].amount = 50000 /\ ls[1].interestRate = Rate(10)
    /\ ~ls[1].isPaid /\ ls[1].repaymentDate = Yesterday
    /\ ls[2].amount = 25000 /\ ls[2].interestRate = Rate(5)
    /\ ~ls[2].isPaid /\ ls[2].repaymentDate = Tomorrow
    /\ ls[3].amount = 75000 /\ ls[3].interestRate = NoRate
    /\ ls[3].isPaid /\ ls[3].repaymentDate = LastMonth

\* C6: the overview's totalDebt is the sum of totalWithInterest over all
\* loans, paidAmount, overdueAmount and pendingAmount the sums over the Paid,
\* Overdue and Pending loans, paymentRate is paidLoans / totalLoans as a
\* percentage; the three-loan scenario gives 3, 1, 1, 1, 156250, 75000, 55000,
\* 26250 and 33.3%.
OverviewAmountsByStatus ==
    result.op = "generateOverviewAnalytics" =>
        LET o == result.value
        IN  /\ o.totalDebt = SumOfTotals(loans, 1..Len(loans))
            /\ o.paidAmount = SumOfTotals(loans, PaidIds(loans))
            /\ o.overdueAmount = SumOfTotals(loans, OverdueIds(loans, now))
            /\ o.pendingAmount = SumOfTotals(loans, PendingIds(loans, now))
            /\ Len(loans) > 0 =>
                   o.paymentRate = Norm(100 * Cardinality(PaidIds(loans)), Len(loans))
            /\ IsScenario(loans) =>
                   /\ o.totalLoans = 3 /\ o.paidLoans = 1
                   /\ o.overdueLoans = 1 /\ o.pendingLoans = 1
                   /\ o.totalDebt = Num(156250)
                   /\ o.paidAmount = Num(75000)
                   /\ o.overdueAmount = Num(55000)
                   /\ o.pendingAmount = Num(26250)
                   /\ ToFixed1(o.paymentRate) = Num(333)

OverviewScenarioWitness ==
    /\ result.op = "generateOverviewAnalytics"
    /\ IsScenario(loans)
    /\ result.value.totalDebt = Num(156250)

(***************************************************************************)
(* The reports on an empty collection, checked under SpecAnalytics.        *)
(***************************************************************************)
\* every named number of a record is 0, and so neither NaN nor an infinity
AllZero(rec, fields) == \A f \in fields : rec[f] = Num(0)

\* C7: on an empty loan list no report yields NaN or Infinity: the overview
\* has every count and amount 0 and a paymentRate of 0, the lender analysis is
\* empty, the interest analysis is all zeros, the monthly buckets, the payment
\* trends and the portfolio metrics are zeros, the risk scores are finite, and
\* every percentage with a zero denominator is 0.
EmptyListGivesZeros ==
    loans = <<>> =>
        /\ result.op = "generateOverviewAnalytics" =>
               LET o == result.value
               IN  /\ o.totalLoans = 0 /\ o.activeLoans = 0 /\ o.paidLoans = 0
                   /\ o.overdueLoans = 0 /\ o.pendingLoans = 0
                   /\ AllZero(o, {"totalDebt", "totalInterest", "overdueAmount",
                                  "paidAmount", "pendingAmount", "averageLoanAmount",
                                  "smallestLoan", "largestLoan", "paymentRate"})
        /\ result.op = "generateMonthlyBreakdown" =>
               \A k \in 1..Len(result.value) :
                   /\ result.value[k].newLoans = 0
                   /\ result.value[k].paidLoans = 0
                   /\ result.value[k].overdueLoans = 0
                   /\ AllZero(result.value[k], {"totalAmount", "averageAmount"})
        /\ result.op = "generateLenderAnalysis" => result.value = <<>>
        /\ result.op = "generateInterestAnalysis" =>
               /\ result.value.loansWithInterest = 0
               /\ AllZero(result.value,
                          {"totalInterest", "interestPercentage", "averageRate",
                           "highestRate", "lowestRate", "interestLoanPercentage",
                           "potentialRevenue"})
        /\ result.op = "generatePaymentTrends" =>
               \A i \in 1..Len(result.value) :
                   /\ result.value[i].payments = 0
                   /\ AllZero(result.value[i], {"amount", "changePercentage"})
        /\ result.op = "generateRiskAssessment" =>
               /\ IsFinite(result.value.overallRisk)
               /\ \A i \in 1..Len(result.value.factors) :
                      IsFinite(result.value.factors[i].score)
               /\ result.value.factors[1].score = Num(0)
        /\ result.op = "calculatePortfolioMetrics" =>
               AllZero(result.value,
                       {"totalValue", "weightedAverageRate", "portfolioYield",
                        "defaultRate", "recoveryRate"})

EmptyOverviewWitness ==
    /\ loans = <<>>
    /\ result.op = "generateOverviewAnalytics"
    /\ result.value.paymentRate = Num(0)
    /\ result.value.smallestLoan = Num(0)

(***************************************************************************)
(* The lender analysis and the risk of an empty portfolio, checked under   *)
(* SpecLender.                                                             *)
(***************************************************************************)
\* C8: for an empty portfolio the risk assessment has a finite overallRisk,
\* exactly 5 factors and a Portfolio Size score of 40, the concentration
\* factor being computed although there is no lender.
EmptyPortfolioRisk ==
    (loans = <<>> /\ result.op = "generateRiskAssessment") =>
        LET r == result.value
        IN  /\ IsFinite(r.overallRisk)
            /\ Len(r.factors) = 5
            /\ r.factors[5].name = "Portfolio Size"
            /\ r.factors[5].score = Num(40)
            /\ r.factors[2].name = "Concentration Risk"
            /\ IsFinite(r.factors[2].score)

EmptyPortfolioRiskWitness ==
    /\ loans = <<>>
    /\ result.op = "generateRiskAssessment"
    /\ result.value.factors[5].score = Num(40)

\* the loans of a collection that carry a lender name
LoansNamed(ls, name) == {i \in 1..Len(ls) : ls[i].lenderName = name}

\* C9: a lender's riskLevel is High if its overdue rate is over 50 or its
\* payment rate under 30, otherwise Medium if the overdue rate is over 20 or
\* the payment rate under 60, otherwise Low; 2 overdue loans of 3 give High.
LenderRiskThresholds ==
    result.op = "generateLenderAnalysis" =>
        \A k \in 1..Len(result.value) :
            LET e == result.value[k]
                mine == LoansNamed(loans, e.name)
                total == Cardinality(mine)
                overdue == Cardinality(mine \cap OverdueIds(loans, now))
                paid == Cardinality(mine \cap PaidIds(loans))
            IN  /\ e.riskLevel =
                       IF 100 * overdue > 50 * total \/ 100 * paid < 30 * total
                       THEN "High"
                       ELSE IF 100 * overdue > 20 * total \/ 100 * paid < 60 * total
                       THEN "Medium"
                       ELSE "Low"
                /\ (total = 3 /\ overdue = 2) => e.riskLevel = "High"
                /\ (2 * overdue = total /\ 10 * paid >= 3 * total)
                       => e.riskLevel = "Medium"
                /\ (5 * overdue = total /\ 5 * paid >= 3 * total)
                       => e.riskLevel = "Low"

LenderTwoOfThreeOverdueWitness ==
    /\ result.op = "generateLenderAnalysis"
    /\ Len(result.value) = 1
    /\ result.value[1].totalLoans = 3
    /\ result.value[1].overdueLoans = 2
    /\ result.value[1].paidLoans = 1
    /\ result.value[1].riskLevel = "High"

RECURSIVE SumOfCounts(_)
SumOfCounts(counts) ==
    IF counts = <<>> THEN 0 ELSE Head(counts) + SumOfCounts(Tail(counts))

\* C10: the lender analysis has exactly one entry per distinct lenderName,
\* compared exactly ("John" and "john" are two lenders); an entry's totalLoans,
\* paidLoans, overdueLoans and totalAmount cover exactly the loans of that
\* name, and the entries' totalLoans sum to the number of loans.
LendersGroupedByExactName ==
    result.op = "generateLenderAnalysis" =>
        LET entries == result.value
            names == {loans[i].lenderName : i \in 1..Len(loans)}
        IN  /\ {entries[k].name : k \in 1..Len(entries)} = names
            /\ Len(entries) = Cardinality(names)
            /\ \A k \in 1..Len(entries) :
                   LET mine == LoansNamed(loans, entries[k].name)
                   IN  /\ entries[k].totalLoans = Cardinality(mine)
                       /\ entries[k].paidLoans = Cardinality(mine \cap PaidIds(loans))
                       /\ entries[k].overdueLoans =
                              Cardinality(mine \cap OverdueIds(loans, now))
                       /\ entries[k].totalAmount = SumOfTotals(loans, mine)
            /\ SumOfCounts([k \in 1..Len(entries) |-> entries[k].totalLoans])
                   = Len(loans)
            /\ ({"John", "john"} \subseteq names) => Len(entries) >= 2

LendersDifferingInCaseWitness ==
    /\ result.op = "generateLenderAnalysis"
    /\ Len(loans) = 3
    /\ {loans[i].lenderName : i \in 1..Len(loans)} = {"John", "john"}
    /\ Len(result.value) = 2

\* C11: the list returned by the lender analysis is ordered by totalAmount
\* descending: of two adjacent entries the earlier one's totalAmount is
\* greater than or equal to the later one's.
LenderAnalysisOrderedByTotalAmount ==
    result.op = "generateLenderAnalysis" =>
        \A k \in 1..(Len(result.value) - 1) :
            NumGe(result.value[k].totalAmount, result.value[k + 1].totalAmount)

\* the lender first met in the collection is owed less than the second
LenderAnalysisReorderedWitness ==
    /\ result.op = "generateLenderAnalysis"
    /\ Len(result.value) = 2
    /\ result.value[1].name # loans[1].lenderName
    /\ NumGt(result.value[1].totalAmount, result.value[2].totalAmount)

(***************************************************************************)
(* The overall risk and its summary, checked under SpecLender.             *)
(***************************************************************************)
FactorNames ==
    <<"Overdue Rate", "Concentration Risk", "Interest Rate Risk",
      "Payment Velocity", "Portfolio Size">>

\* 100 * (0.30*f1 + 0.25*f2 + 0.15*f3 + 0.20*f4 + 0.10*f5) of five factors
WeightedRiskTimes100(factors) ==
    NumAdd(NumAdd(NumAdd(NumAdd(NumMul(Num(30), factors[1].score),
                                NumMul(Num(25), factors[2].score)),
                         NumMul(Num(15), factors[3].score)),
                  NumMul(Num(20), factors[4].score)),
           NumMul(Num(10), factors[5].score))

\* C12: the overallRisk of the risk assessment is 0.30*f1 + 0.25*f2 + 0.15*f3
\* + 0.20*f4 + 0.10*f5, f1..f5 the scores of the Overdue Rate, Concentration
\* Risk, Interest Rate Risk, Payment Velocity and Portfolio Size factors in
\* that order, rounded to the nearest integer, and lies within 0..100.
OverallRiskIsRoundedWeightedSum ==
    result.op = "generateRiskAssessment" =>
        LET r == result.value
            weighted == WeightedRiskTimes100(r.factors)
            overall == NumMul(Num(100), r.overallRisk)
        IN  /\ Len(r.factors) = 5
            /\ \A i \in 1..5 : r.factors[i].name = FactorNames[i]
            /\ r.overallRisk.d = 1
            /\ NumGe(NumAdd(weighted, Num(50)), overall)
            /\ NumGe(NumAdd(overall, Num(50)), weighted)
            /\ NumGe(r.overallRisk, Num(0))
            /\ NumGe(Num(100), r.overallRisk)

\* one overdue loan of three owed to one lender: the weighted sum 59.5 is
\* reported as 60
OverallRiskRoundedWitness ==
    /\ result.op = "generateRiskAssessment"
    /\ Len(loans) = 3
    /\ WeightedRiskTimes100(result.value.factors) = Num(5950)
    /\ result.value.overallRisk = Num(60)

\* C13: the summary of the risk assessment is banded on the overallRisk it
\* reports: the high-risk summary exactly when overallRisk >= 70, the
\* moderate-risk summary exactly when 40 <= overallRisk < 70, the low-risk
\* summary exactly when overallRisk < 40.
SummaryBandedOnOverallRisk ==
    result.op = "generateRiskAssessment" =>
        LET r == result.value
        IN  /\ r.summary = HighRiskSummary <=> NumGe(r.overallRisk, Num(70))
            /\ r.summary = ModerateRiskSummary <=>
                   (NumGe(r.overallRisk, Num(40)) /\ NumLt(r.overallRisk, Num(70)))
            /\ r.summary = LowRiskSummary <=> NumLt(r.overallRisk, Num(40))

(***************************************************************************)
(* The stored collection under the operations of LoanService, checked      *)
(* under Spec.  A step is recognised by the result it leaves.              *)
(***************************************************************************)
\* the positions of the stored loans that carry an id
PositionsOf(ls, id) == {i \in 1..Len(ls) : ls[i].id = id}

\* the first stored loan that carries an id: the one the operations act on
FirstWithId(ls, id) ==
    CHOOSE i \in PositionsOf(ls, id) : \A j \in PositionsOf(ls, id) : i <= j

\* C14: addLoan stores a new loan with isPaid = false and a system-assigned
\* id that differs from the id of every loan already stored, appends it to
\* the collection and leaves every loan stored before unchanged.
AddLoanAppendsNewUnpaidLoan ==
    [][result'.op = "addLoan" =>
          LET new == loans'[Len(loans')]
          IN  /\ Len(loans') = Len(loans) + 1
              /\ SubSeq(loans', 1, Len(loans)) = loans
              /\ new.isPaid = FALSE
              /\ new.id = result'.id
              /\ \A i \in 1..Len(loans) : loans[i].id # new.id
              /\ result'.value = <<new>>]_vars

\* a loan added after a deletion, next to a loan stored before
AddLoanAfterDeleteWitness ==
    /\ result.op = "addLoan"
    /\ result.id = 3
    /\ Len(loans) = 2
    /\ loans[1].isPaid
    /\ ~loans[2].isPaid

\* C15: markLoanAsPaid on a stored loan sets that loan's isPaid to true and
\* changes no other field and no other loan; applied to a loan already paid
\* it returns the loan and leaves the stored collection as a single
\* application left it.
MarkLoanAsPaidSetsOnlyIsPaid ==
    [][(result'.op = "markLoanAsPaid" /\ PositionsOf(loans, result'.id) # {}) =>
          LET k == FirstWithId(loans, result'.id)
          IN  /\ Len(loans') = Len(loans)
              /\ loans'[k].isPaid = TRUE
              /\ DOMAIN loans'[k] = DOMAIN loans[k]
              /\ \A f \in DOMAIN loans[k] \ {"isPaid"} : loans'[k][f] = loans[k][f]
              /\ \A j \in 1..Len(loans) \ {k} : loans'[j] = loans[j]
              /\ result'.value = <<loans'[k]>>
              /\ loans[k].isPaid => loans' = loans
              /\ markLoanAsPaid(loans', result'.id) = loans']_vars

\* a loan marked paid while another stored loan stays unpaid
MarkLoanAsPaidWitness ==
    /\ result.op = "markLoanAsPaid"
    /\ result.value # <<>>
    /\ Len(loans) = 2
    /\ loans[2].id = result.id
    /\ loans[2].isPaid
    /\ ~loans[1].isPaid

\* C16: after any sequence of addLoan, updateLoan, markLoanAsPaid and
\* deleteLoan calls every stored loan has the id it was created with and no
\* two stored loans share an id: no updateLoan call changes a loan's id.
StoredIdsAreImmutableAndUnique ==
    /\ [](\A i, j \in 1..Len(loans) : loans[i].id = loans[j].id => i = j)
    /\ [][result'.op \in {"updateLoan", "markLoanAsPaid"} =>
              /\ Len(loans') = Len(loans)
              /\ \A i \in 1..Len(loans) : loans'[i].id = loans[i].id]_vars

\* the k-th of the stored loans that do not carry an id
KthOther(ls, id, k) ==
    CHOOSE p \in 1..Len(ls) :
        /\ ls[p].id # id
        /\ Cardinality({q \in 1..p : ls[q].id # id}) = k

CurrentMonth(clock) == CivilDate(clock \div TicksPerDay).monthNo

\* the 12 consecutive calendar months that end with the current month
WindowMonths(clock) == (CurrentMonth(clock) - 11)..CurrentMonth(clock)

\* the loans of a collection that fall due in a set of months
LoansDueIn(ls, months) ==
    {i \in 1..Len(ls) : CivilDate(ls[i].repaymentDate).monthNo \in months}

\* C19: on every evaluation date, the last days of a month included, the
\* monthly breakdown returns exactly 12 buckets, the 12 distinct consecutive
\* calendar months ending with the current month in chronological order,
\* whatever the loans; a month without a matching loan has newLoans,
\* totalAmount, paidLoans, overdueLoans and averageAmount all 0.
MonthlyBucketsAreLastTwelveMonths ==
    result.op = "generateMonthlyBreakdown" =>
        LET b == result.value
        IN  /\ Len(b) = 12
            /\ \A k \in 1..12 : b[k].month = CurrentMonth(now) - (12 - k)
            /\ \A k, m \in 1..12 : b[k].month = b[m].month => k = m
            /\ \A k \in 1..12 :
                   LoansDueIn(loans, {b[k].month}) = {} =>
                       /\ b[k].newLoans = 0
                       /\ b[k].paidLoans = 0
                       /\ b[k].overdueLoans = 0
                       /\ b[k].totalAmount = Num(0)
                       /\ b[k].averageAmount = Num(0)

\* C20: in the monthly breakdown every loan whose repaymentDate month lies
\* in the 12-month window is counted in exactly one bucket, that of its
\* repaymentDate's calendar month, a loan outside the window in none: the
\* newLoans of all buckets sum to the number of loans in the window, each
\* bucket has paidLoans + overdueLoans <= newLoans, and averageAmount is
\* totalAmount / newLoans when newLoans > 0.
MonthlyBucketsCountEachLoanOnce ==
    result.op = "generateMonthlyBreakdown" =>
        LET b == result.value
            window == WindowMonths(now)
        IN  /\ \A i \in LoansDueIn(loans, window) :
                   Cardinality({k \in 1..Len(b) :
                       /\ b[k].month = CivilDate(loans[i].repaymentDate).monthNo
                       /\ b[k].newLoans > 0}) = 1
            /\ \A k \in 1..Len(b) :
                   /\ b[k].newLoans = Cardinality(LoansDueIn(loans, {b[k].month}))
                   /\ b[k].month \in window
                   /\ b[k].paidLoans + b[k].overdueLoans <= b[k].newLoans
                   /\ b[k].newLoans > 0 =>
                          NumMul(b[k].averageAmount, Num(b[k].newLoans))
                              = b[k].totalAmount
            /\ SumOfCounts([k \in 1..Len(b) |-> b[k].newLoans])
                   = Cardinality(LoansDueIn(loans, window))

(***************************************************************************)
(* The five risk factors, checked under SpecRisk.                          *)
(***************************************************************************)
\* the total owed to the lender owed most, 0 without loans
LargestExposure(ls) ==
    LET names == {ls[i].lenderName : i \in 1..Len(ls)}
    IN  IF names = {} THEN Num(0)
        ELSE LET top == CHOOSE nm \in names :
                            \A other \in names :
                                NumGe(SumOfTotals(ls, LoansNamed(ls, nm)),
                                      SumOfTotals(ls, LoansNamed(ls, other)))
             IN  SumOfTotals(ls, LoansNamed(ls, top))

\* C21: the risk assessment returns five factors, each score within 0..100,
\* in the order Overdue Rate, Concentration Risk, Interest Rate Risk, Payment
\* Velocity, Portfolio Size: min(overdueRate% * 2, 100); 80 if the largest
\* single-lender share of the total debt is over 50%, 50 if over 30%, else
\* 20; 60 if the share of loans with no interest is over 70%, 30 if over 40%,
\* else 10; 70 if the payment rate is under 50%, 40 if under 70%, else 20; 40
\* if there are fewer than 5 loans, 20 if fewer than 10, else 10.
RiskFactorsScoredByThresholds ==
    result.op = "generateRiskAssessment" =>
        LET f == result.value.factors
            n == Len(loans)
            overdue == Cardinality(OverdueIds(loans, now))
            paid == Cardinality(PaidIds(loans))
            noInterest == Cardinality({i \in 1..n : RateOrZero(loans[i]) = 0})
            total == SumOfTotals(loans, 1..n)
            largest == LargestExposure(loans)
        IN  /\ Len(f) = 5
            /\ \A i \in 1..5 :
                   /\ f[i].name = FactorNames[i]
                   /\ NumGe(f[i].score, Num(0))
                   /\ NumGe(Num(100), f[i].score)
            /\ f[1].score =
                   IF n = 0 THEN Num(0)
                   ELSE IF 200 * overdue > 100 * n THEN Num(100)
                   ELSE Norm(200 * overdue, n)
            /\ f[2].score =
                   IF NumGt(NumMul(Num(100), largest), NumMul(Num(50), total))
                   THEN Num(80)
                   ELSE IF NumGt(NumMul(Num(100), largest), NumMul(Num(30), total))
                   THEN Num(50)
                   ELSE Num(20)
            /\ f[3].score =
                   IF 100 * noInterest > 70 * n THEN Num(60)
                   ELSE IF 100 * noInterest > 40 * n THEN Num(30)
                   ELSE Num(10)
            /\ f[4].score =
                   IF n = 0 \/ 100 * paid < 50 * n THEN Num(70)
                   ELSE IF 100 * paid < 70 * n THEN Num(40)
                   ELSE Num(20)
            /\ f[5].score =
                   IF n < 5 THEN Num(40) ELSE IF n < 10 THEN Num(20) ELSE Num(10)

\* ten loans owed in equal parts to two lenders, seven of them paid
RiskFactorsAtThresholdsWitness ==
    /\ result.op = "generateRiskAssessment"
    /\ Len(loans) = 10
    /\ Cardinality({loans[i].lenderName : i \in 1..Len(loans)}) = 2
    /\ result.value.factors[2].score = Num(50)
    /\ result.value.factors[4].score = Num(20)
    /\ result.value.factors[5].score = Num(10)
    /\ Cardinality(PaidIds(loans)) = 7

(***************************************************************************)
(* The lender's risk label, checked under SpecLenderPair.                  *)
(***************************************************************************)
\* Low < Medium < High
LabelRank(label) ==
    IF label = "Low" THEN 1 ELSE IF label = "Medium" THEN 2 ELSE 3

\* C22: the lender risk label is monotonic, with Low < Medium < High: of two
\* lenders with the same paymentRate the one with the higher overdueRate
\* never has the lower label, and of two lenders with the same overdueRate
\* the one with the higher paymentRate never has the higher label.
LenderRiskLabelMonotonic ==
    result.op = "generateLenderAnalysis" =>
        \A k, m \in 1..Len(result.value) :
            LET a == result.value[k]
                b == result.value[m]
                samePayment == a.paidLoans * b.totalLoans = b.paidLoans * a.totalLoans
                sameOverdue ==
                    a.overdueLoans * b.totalLoans = b.overdueLoans * a.totalLoans
                moreOverdue ==
                    a.overdueLoans * b.totalLoans > b.overdueLoans * a.totalLoans
                morePaid == a.paidLoans * b.totalLoans > b.paidLoans * a.totalLoans
            IN  /\ a.riskLevel \in {"Low", "Medium", "High"}
                /\ (samePayment /\ moreOverdue) =>
                       LabelRank(a.riskLevel) >= LabelRank(b.riskLevel)
                /\ (sameOverdue /\ morePaid) =>
                       LabelRank(a.riskLevel) <= LabelRank(b.riskLevel)

\* two lenders without an overdue loan, one paid in full and Low, the other
\* paid by half and Medium
LenderLabelsDifferWitness ==
    /\ result.op = "generateLenderAnalysis"
    /\ Len(result.value) = 2
    /\ result.value[1].overdueLoans = 0
    /\ result.value[2].overdueLoans = 0
    /\ {result.value[1].riskLevel, result.value[2].riskLevel} = {"Low", "Medium"}

(***************************************************************************)
(* The payment trends, checked under SpecTrends.                           *)
(***************************************************************************)
\* the paid loans due within the trailing window of so many days: from the
\* clock less the days up to the clock
PaidInWindow(ls, clock, days) ==
    {i \in 1..Len(ls) :
        /\ ls[i].isPaid
        /\ ls[i].repaymentDate * TicksPerDay >= clock - days * TicksPerDay
        /\ ls[i].repaymentDate * TicksPerDay <= clock}

\* C23: the payment trends are five periods in the order 7, 30, 90, 180 and
\* 365 days; for each window of d days payments counts exactly the paid loans
\* whose repaymentDate falls within the trailing window, from now minus d
\* days up to now, and amount is the sum of totalWithInterest over exactly
\* those loans; unpaid loans and loans due outside the window are not counted.
TrendsCountPaidLoansOfWindow ==
    result.op = "generatePaymentTrends" =>
        LET t == result.value
        IN  /\ Len(t) = 5
            /\ \A i \in 1..5 :
                   /\ t[i].period = Periods[i]
                   /\ t[i].payments =
                          Cardinality(PaidInWindow(loans, now, <<7, 30, 90, 180, 365>>[i]))
                   /\ t[i].amount =
                          SumOfTotals(loans, PaidInWindow(loans, now, <<7, 30, 90, 180, 365>>[i]))

\* the signed change of a period against the amount of the period before
SignedChange(amount, prevAmount) ==
    IF NumGt(prevAmount, Num(0))
    THEN NumDiv(NumMul(NumSub(amount, prevAmount), Num(100)), prevAmount)
    ELSE Num(0)

\* C24: in the payment trends the first period has trend stable and
\* changePercentage 0; every later period computes change = (amount -
\* prevAmount) / prevAmount * 100 against the previous shorter window and is
\* up when change > 5, down when change < -5, stable otherwise; when
\* prevAmount is 0 the change is 0 and the trend stable, not NaN or Infinity.
TrendsClassifyChange ==
    result.op = "generatePaymentTrends" =>
        LET t == result.value
        IN  /\ t[1].trend = "stable"
            /\ t[1].changePercentage = Num(0)
            /\ \A i \in 2..Len(t) :
                   LET change == SignedChange(t[i].amount, t[i - 1].amount)
                   IN  /\ IsFinite(t[i].changePercentage)
                       /\ t[i].changePercentage = change
                       /\ t[i].trend = IF NumGt(change, Num(5)) THEN "up"
                                       ELSE IF NumLt(change, Num(-5)) THEN "down"
                                       ELSE "stable"
                       /\ t[i - 1].amount = Num(0) =>
                              (t[i].changePercentage = Num(0) /\ t[i].trend = "stable")

\* nothing paid in the last 30 days, one loan in the last 90, two in the
\* last 180: stable at no previous amount, then up by 100 per cent
TrendsUpAfterEmptyWitness ==
    /\ result.op = "generatePaymentTrends"
    /\ result.value[2].amount = Num(0)
    /\ result.value[3].payments = 1
    /\ result.value[3].trend = "stable"
    /\ result.value[4].payments = 2
    /\ result.value[4].trend = "up"
    /\ result.value[4].changePercentage = Num(100)

\* C28: in the payment trends the payments and the amount of a period are
\* never smaller than those of the preceding shorter period, so the signed
\* change is never negative and no period is classified down; the
\* changePercentage reported is never negative.
TrendsNeverDecrease ==
    result.op = "generatePaymentTrends" =>
        LET t == result.value
        IN  \A i \in 1..Len(t) :
                /\ t[i].trend # "down"
                /\ NumGe(t[i].changePercentage, Num(0))
                /\ i > 1 =>
                       /\ t[i].payments >= t[i - 1].payments
                       /\ NumGe(t[i].amount, t[i - 1].amount)
                       /\ NumGe(SignedChange(t[i].amount, t[i - 1].amount), Num(0))

\* each longer period holds one paid loan more than the one before
TrendsGrowingWitness ==
    /\ result.op = "generatePaymentTrends"
    /\ result.value[1].payments = 1
    /\ result.value[2].payments = 2
    /\ result.value[3].payments = 3
    /\ result.value[2].trend = "up"

(***************************************************************************)
(* The interest analysis, checked under SpecInterest.                      *)
(***************************************************************************)
RECURSIVE SumOver(_, _, _)
\* the sum over a set of loans of one of two integers: the loan's amount
\* times its rate, or its rate
SumOver(ls, ids, what) ==
    IF ids = {} THEN 0
    ELSE LET i == CHOOSE j \in ids : TRUE
             term == IF what = "amount" THEN ls[i].amount
                     ELSE IF what = "interest" THEN ls[i].amount * RateOrZero(ls[i])
                     ELSE RateOrZero(ls[i])
         IN  term + SumOver(ls, ids \ {i}, what)

\* C25: the interest analysis counts as loans with interest exactly the
\* loans with interestRate > 0; totalInterest is the sum of amount *
\* interestRate / 100 over them, interestPercentage is totalInterest over the
\* total principal, interestLoanPercentage their share of all loans, and
\* lowestRate <= averageRate <= highestRate are the min, mean and max of
\* their rates; when no loan carries interest all of these are 0;
\* potentialRevenue is always the total principal plus totalInterest.
InterestAnalysisOverLoansWithInterest ==
    result.op = "generateInterestAnalysis" =>
        LET a == result.value
            all == 1..Len(loans)
            with == {i \in all : RateOrZero(loans[i]) > 0}
            rates == {RateOrZero(loans[i]) : i \in with}
            principal == SumOver(loans, all, "amount")
        IN  /\ a.loansWithInterest = Cardinality(with)
            /\ a.totalInterest = Norm(SumOver(loans, with, "interest"), 100)
            /\ principal > 0 =>
                   a.interestPercentage = Norm(SumOver(loans, with, "interest"), principal)
            /\ Len(loans) > 0 =>
                   a.interestLoanPercentage = Norm(100 * Cardinality(with), Len(loans))
            /\ with # {} =>
                   /\ a.lowestRate.d = 1 /\ a.lowestRate.n \in rates
                   /\ \A r \in rates : a.lowestRate.n <= r
                   /\ a.highestRate.d = 1 /\ a.highestRate.n \in rates
                   /\ \A r \in rates : a.highestRate.n >= r
                   /\ a.averageRate = Norm(SumOver(loans, with, "rate"), Cardinality(with))
                   /\ NumGe(a.averageRate, a.lowestRate)
                   /\ NumGe(a.highestRate, a.averageRate)
            /\ with = {} =>
                   /\ a.loansWithInterest = 0
                   /\ AllZero(a, {"totalInterest", "interestPercentage",
                                   "interestLoanPercentage", "lowestRate",
                                   "averageRate", "highestRate"})
            /\ a.potentialRevenue = NumAdd(Num(principal), a.totalInterest)

\* a loan with a rate of 0 beside loans at 5 and at 10 per cent
InterestWithZeroRateWitness ==
    /\ result.op = "generateInterestAnalysis"
    /\ Len(loans) = 3
    /\ \E i \in 1..3 : loans[i].interestRate = Rate(0)
    /\ result.value.loansWithInterest = 2
    /\ result.value.lowestRate = Num(5)
    /\ result.value.highestRate = Num(10)

(***************************************************************************)
(* SpecStorage: StorageService and the data file.  In this specification   *)
(* the variable loans holds the data file at LOAN_DATA_PATH: it is         *)
(* missing, or it has a text that is the JSON of a collection of loans, or *)
(* a text that JSON.parse refuses (the prefix of such a JSON, as an        *)
(* interrupted write or an edit by hand leaves it).                        *)
(***************************************************************************)
\* the longest collection a data file holds
MaxFileLoans == 3

FileLoan ==
    {[id |-> 1] @@ MakeLoan("John", <<50000, Rate(10)>>, <<FALSE, Tomorrow>>),
     [id |-> 2] @@ MakeLoan("Mary", <<1000, NoRate>>, <<TRUE, Yesterday>>),
     [id |-> 3] @@ MakeLoan("Ada", <<75000, Rate(5)>>, <<FALSE, Yesterday>>)}

RECURSIVE SeqsUpTo(_, _)
SeqsUpTo(S, n) ==
    IF n = 0 THEN {<<>>}
    ELSE LET shorter == SeqsUpTo(S, n - 1)
         IN  shorter \cup {Append(ls, x) : ls \in shorter, x \in S}

FileCollections == SeqsUpTo(FileLoan, MaxFileLoans)

NoFile == [kind |-> "missing"]

\* JSON.stringify(loans, null, 2)
JSONStringify(ls) == [kind |-> "json", loans |-> ls]

\* a text that is not JSON: the written text of ls, cut short
Truncated(ls) == [kind |-> "truncated", loans |-> ls]

Files ==
    {NoFile} \cup {JSONStringify(ls) : ls \in FileCollections}
             \cup {Truncated(ls) : ls \in FileCollections}

\* fs.readFile followed by JSON.parse: whether the try block throws
ReadThrows(file, readFails) ==
    \/ file.kind = "missing"
    \/ readFails
    \/ file.kind = "truncated"

\* JSON.parse(data) of a text that parses
JSONParse(file) == file.loans

\* the data file after saveLoans(loans)
saveLoans(ls) == JSONStringify(ls)

\* the data file after readLoans
readLoansFile(file, readFails) ==
    IF ReadThrows(file, readFails) THEN saveLoans(<<>>) ELSE file

\* what readLoans returns
readLoans(file, readFails) ==
    IF ReadThrows(file, readFails) THEN <<>> ELSE JSONParse(file)

InitStorage ==
    /\ loans \in Files
    /\ now = ReportNow
    /\ nextId = 1
    /\ result = NoResult

\* readFails: fs.readFile rejects although the file exists
ReadLoans ==
    \E readFails \in BOOLEAN :
        /\ loans' = readLoansFile(loans, readFails)
        /\ result' = [op |-> "readLoans", readFails |-> readFails,
                      value |-> readLoans(loans, readFails)]
        /\ UNCHANGED <<now, nextId>>

SaveLoans ==
    \E ls \in FileCollections :
        /\ loans' = saveLoans(ls)
        /\ result' = [op |-> "saveLoans"]
        /\ UNCHANGED <<now, nextId>>

NextStorage ==
    \/ ReadLoans
    \/ SaveLoans

SpecStorage == InitStorage /\ [][NextStorage]_vars

(***************************************************************************)
(* The data file under readLoans, checked under SpecStorage.               *)
(***************************************************************************)
\* C29: readLoans never destroys stored loans: it writes an empty
\* collection only when the data file does not exist, and when a data file
\* exists, whatever its content, including one that fails to read or to
\* parse, a call to readLoans leaves the file's content unchanged.
ReadLoansKeepsExistingFile ==
    [][result'.op = "readLoans" =>
          /\ loans # NoFile => loans' = loans
          /\ loans' # loans => (loans = NoFile /\ loans' = JSONStringify(<<>>))]_vars

(***************************************************************************)
(* The frame of updateLoan and markLoanAsPaid, checked under Spec.         *)
(***************************************************************************)
\* C30: updateLoan and markLoanAsPaid called with an id that is not in the
\* store return null and leave the stored collection unchanged; called with
\* a stored id, updateLoan changes only the fields named in the update, on
\* that one loan, and leaves every other loan and the order of the
\* collection unchanged.
UpdateLoanChangesOnlyNamedFields ==
    [][result'.op \in {"updateLoan", "markLoanAsPaid"} =>
          IF PositionsOf(loans, result'.id) = {}
          THEN /\ result'.value = <<>>
               /\ loans' = loans
          ELSE LET k == FirstWithId(loans, result'.id)
                   named == IF result'.op = "updateLoan"
                            THEN DOMAIN result'.updates ELSE {"isPaid"}
               IN  /\ Len(loans') = Len(loans)
                   /\ \A j \in 1..Len(loans) \ {k} : loans'[j] = loans[j]
                   /\ DOMAIN loans'[k] = DOMAIN loans[k]
                   /\ \A f \in DOMAIN loans[k] \ named : loans'[k][f] = loans[k][f]
                   /\ result'.op = "updateLoan" =>
                          \A f \in named : loans'[k][f] = result'.updates[f]
                   /\ result'.value = <<loans'[k]>>]_vars

\* the edit form applied to the second of two stored loans
UpdateSecondLoanWitness ==
    /\ result.op = "updateLoan"
    /\ result.value # <<>>
    /\ "amount" \in DOMAIN result.updates
    /\ Len(loans) = 2
    /\ loans[2].id = result.id
    /\ loans[2].amount = 75000
    /\ loans[1].amount = 50000

(***************************************************************************)
(* The validation of a repayment date, checked under SpecDate.             *)
(***************************************************************************)
\* C26: isValidDate accepts a repayment date only when it parses to a valid
\* date strictly later than the current instant: false for an unparseable
\* string, for every past date and for today's date, true for tomorrow and
\* any later date.
ValidDateIsStrictlyFuture ==
    result.op = "isValidDate" =>
        LET str == result.dateString
            today == result.now \div TicksPerDay
        IN  /\ str = Unparseable => result.value = FALSE
            /\ str # Unparseable =>
                   /\ str[1] < today => result.value = FALSE
                   /\ str[1] = today => result.value = FALSE
                   /\ str[1] > today => result.value = TRUE
                   /\ result.value = (str[1] * TicksPerDay > result.now)

\* today's date refused at the midnight that starts the day
TodayRefusedAtMidnightWitness ==
    /\ result.op = "isValidDate"
    /\ result.now = Today * TicksPerDay
    /\ result.dateString = <<Today>>
    /\ result.value = FALSE

(***************************************************************************)
(* The status of a loan as time passes, checked under SpecClock.           *)
(***************************************************************************)
\* C27: as time advances with no edit to a loan its derived status changes
\* monotonically: a Paid loan stays Paid, an Overdue loan never returns to
\* Pending, the only change the passage of time causes is Pending to
\* Overdue; every unpaid loan is eventually Overdue, once now has passed its
\* repaymentDate.
StatusMonotonicInTime ==
    /\ [][(loans' = loans /\ now' >= now) =>
              LET before == StatusOf(loans[1], now)
                  after == StatusOf(loans'[1], now')
              IN  /\ before = "Paid" => after = "Paid"
                  /\ before = "Overdue" => after = "Overdue"
                  /\ before # after => (before = "Pending" /\ after = "Overdue")]_vars
    /\ [](\A i \in 1..Len(loans) :
              (~loans[i].isPaid /\ now > loans[i].repaymentDate * TicksPerDay)
                  => StatusOf(loans[i], now) = "Overdue")
    /\ [](result.op = "formatLoanTable" =>
              result.value[1].status = StatusOf(loans[1], now))
    /\ \A l \in Loan :
           (loans = <<l>> /\ ~l.isPaid) ~> (StatusOf(loans[1], now) = "Overdue")

\* a loan due tomorrow, shown Overdue after the clock has passed into the
\* day after
PendingBecameOverdueWitness ==
    /\ result.op = "formatLoanTable"
    /\ ~loans[1].isPaid
    /\ loans[1].repaymentDate = Tomorrow
    /\ now > Tomorrow * TicksPerDay
    /\ result.value[1].status = "Overdue"

====
